---- MODULE Spec2Model ----
(***************************************************************************)
(* Multi-agent backend: email draft approval / send, the orchestrator      *)
(* graph, the chat transcript, the file summarizer pipeline and the        *)
(* update / delete by matching of the calendar and notes agents.           *)
(*                                                                         *)
(* The backend runs as one asyncio event loop (uvicorn.run without         *)
(* workers, server.py:1143).  A coroutine gives up the loop only where it  *)
(* really suspends: the LLM calls (email_drafter.py:181, 247) and          *)
(* asyncio.sleep (send_worker.py:108, 123).  The storage functions of      *)
(* draft_storage.py are "async def" but do blocking file I/O and contain   *)
(* no suspension, and GmailConnector.send_email calls the blocking         *)
(* .execute() (gmail_connector.py:54-57); awaiting them does not yield.    *)
(* Each action below is therefore the code that runs between two           *)
(* suspension points of one request.                                       *)
(***************************************************************************)
EXTENDS Integers, FiniteSets, Sequences, TLC

\* ---- bounds ------------------------------------------------------------
NumProcs == 2      \* requests that can be suspended at the same time
MaxDrafts == 2     \* drafts ever created (ids are fresh uuids, never reused)
MaxMsgs == 2       \* messages the mail provider accepts in one run
MaxRequests == 4   \* requests (handler invocations) in one run
MaxNow == 25       \* last instant of the clock, in hours
MaxChats == 2      \* chat requests in one run
MaxWall == 2       \* largest reading of the wall clock
MaxLen == 2        \* longest extracted text and longest summary, in characters
MaxChunks == 2     \* most chunks the text splitter returns
MaxIds == 2        \* events / documents the provider holds

\* ---- program constants -------------------------------------------------
MAX_RETRIES == 3
\* "confidence < 0.5", in tenths
ConfidenceThreshold == 5
APPROVAL_TIMEOUT_HOURS == 24
\* the modelled clock advances by one approval timeout and an hour at a time
TickHours == APPROVAL_TIMEOUT_HOURS + 1

Procs == 1..NumProcs
DraftIds == 1..MaxDrafts

\* DraftStatus values (models.py:28-36); "absent" is "no draft file"
DraftStatus == {"drafted", "pending_approval", "approved", "rejected",
                "scheduled", "sent", "failed"}
Outcomes == {"ok", "transient", "permanent", "lost"}
NoExpiry == -1

VARIABLES
    store,              \* draft id -> stored draft file (draft_<id>.json)
    pending_approvals,  \* ApprovalWorkflow.pending_approvals: id -> expires_at
    now,                \* datetime.utcnow(), in hours
    nextDraft,          \* number of drafts created so far
    mailbox,            \* provider side: id -> messages accepted for the draft
    pc,                 \* per request slot: "idle", "send_sleep", "update_llm"
    loc,                \* per request slot: locals of the suspended coroutine
    ev,                 \* what the last step did and returned
    requests,           \* requests received so far
    hist                \* history: per draft, what requests have returned

emailVars == <<store, pending_approvals, now, nextDraft, mailbox, pc, loc,
               ev, requests, hist>>

\* ---- orchestrator state (OrchestratorState, dynamic_orchestrator.py) --------
VARIABLES
    agents_to_invoke,   \* state["agents_to_invoke"]: the plan
    current_agent,      \* state["current_agent"]; "" before routing
    workflow_complete,  \* state["workflow_complete"]
    agent_results,      \* state["agent_results"]: agent -> status of its slot
    final_response,     \* state["final_response"], as the messages it shows
    node,               \* graph node to run next, or how the run ended
    executed,           \* value of current_agent at each run of execute_agent
    last,               \* the last agent call: agent and how process ended
    abort               \* why graph.ainvoke raised, "none" if it did not

orchVars == <<agents_to_invoke, current_agent, workflow_complete,
              agent_results, final_response, node, executed, last, abort>>

\* ---- chat transcript state (server.py, database_utils.py) -------------------
VARIABLES
    chat_json,          \* the session's chat.json: content, and whether it is torn
    wall,               \* datetime.now(timezone.utc), the system's wall clock
    cpc,                \* per request slot: "idle", "orchestrating"
    cloc,               \* per request slot: the chat request it serves
    chats,              \* chat requests received so far
    run,                \* chat request -> how it ended
    history             \* what the last step read from chat.json, if it read

chatVars == <<chat_json, wall, cpc, cloc, chats, run, history>>

\* ---- file summarizer state (advanced_file_summarizer_agent.py) -------------
VARIABLES
    fstate,             \* FileSummarizerState of the run
    fnode,              \* graph node to run next; "idle", "end" outside a run
    ran,                \* the nodes the run has executed, in order
    failed,             \* position in ran of the first node that set errors
    fresult             \* "status" of what process_file returned

fileVars == <<fstate, fnode, ran, failed, fresult>>

\* ---- update / delete by matching (calendar_agent.py, notes_agent.py) -------
VARIABLES
    mreq,               \* the request being served: agent and action
    mpc,                \* "idle", "matching" (waiting for the matcher), "done"
    listed,             \* ids of the events / documents the provider listed
    match,              \* what the matcher answered
    mutation,           \* the update / delete call made to the provider
    mresult             \* "status" of what the agent returned

matchVars == <<mreq, mpc, listed, match, mutation, mresult>>

\* ---- draft storage of one session (draft_storage.py) -----------------------
VARIABLES
    draft_files,        \* draft id -> status in draft_<id>.json, "absent": no file
    index_json,         \* the session's index.json: a list of draft ids
    deleted,            \* ids for which delete_draft has removed a file
    sret                \* the storage call made last and what it returned

storageVars == <<draft_files, index_json, deleted, sret>>

\* ---- one find_free_slots call (google_calendar_connector.py) -----------------
VARIABLES
    fb_request,         \* time_min, time_max, duration_minutes, calendar_ids
    busy_periods,       \* the busy intervals of the reply, in reply order
    slots_result        \* what find_free_slots returned

slotVars == <<fb_request, busy_periods, slots_result>>

\* ---- safety guard and the draft it is run on (safety_guard.py) ---------------
VARIABLES
    safety_result,      \* what check_draft returned last
    new_draft           \* the draft _handle_draft stored last

safetyVars == <<safety_result, new_draft>>

\* ---- SecureEmailAgent (backend/email_agent.py) -------------------------------
VARIABLES
    sec_request,        \* the state dict of the last process_request call
    sec_result,         \* what it returned, and whether it called the provider
    provider_calls      \* GoogleAPIClient.send_email calls made so far

secureVars == <<sec_request, sec_result, provider_calls>>

vars == <<emailVars, orchVars, chatVars, fileVars, matchVars, storageVars, slotVars, safetyVars, secureVars>>

\* what the operations of each part leave alone
nonEmailVars == <<orchVars, chatVars, fileVars, matchVars, storageVars, slotVars, safetyVars, secureVars>>
nonOrchVars == <<emailVars, chatVars, fileVars, matchVars, storageVars, slotVars, safetyVars, secureVars>>
nonChatVars == <<emailVars, orchVars, fileVars, matchVars, storageVars, slotVars, safetyVars, secureVars>>
nonFileVars == <<emailVars, orchVars, chatVars, matchVars, storageVars, slotVars, safetyVars, secureVars>>
nonMatchVars == <<emailVars, orchVars, chatVars, fileVars, storageVars, slotVars, safetyVars, secureVars>>
nonStorageVars == <<emailVars, orchVars, chatVars, fileVars, matchVars, slotVars, safetyVars, secureVars>>
nonSlotVars == <<emailVars, orchVars, chatVars, fileVars, matchVars, storageVars, safetyVars, secureVars>>
nonSafetyVars == <<emailVars, orchVars, chatVars, fileVars, matchVars, storageVars, slotVars, secureVars>>
nonSecureVars == <<emailVars, orchVars, chatVars, fileVars, matchVars, storageVars, slotVars, safetyVars>>

MaxPlan == 2       \* length of the agents_to_invoke list the planner returns
MaxWindow == 24    \* time_max of a free/busy query, in time units
MaxDuration == 3   \* largest duration_minutes asked for, in time units
MaxCalls == 3      \* calls of the mail provider by the SecureEmailAgent

\* the agents _execute_agent dispatches to
Registry == {"calendar_agent", "notes_agent", "file_agent", "email_agent",
             "general_agent"}
\* names the planner model may put in agents_to_invoke
AgentNames == Registry \cup {"unknown_agent"}
\* the keys of keyword_map in insertion order
KeywordOrder == <<"email_agent", "calendar_agent", "file_agent", "notes_agent",
                  "general_agent">>
PlannerLists == UNION {[1..n -> AgentNames] : n \in 0..MaxPlan}
\* runs of the execute_agent node after which the graph gives up; a plan
\* without repetition needs at most MaxPlan + 5 of them
MaxSteps == MaxPlan + Cardinality(Registry) + 1

NoResponse == [kind |-> "none", shown |-> {}]
NoExec == [agent |-> "", outcome |-> "none"]

\* initial_state of DynamicMultiAgentOrchestrator.process_request
OrchInit ==
    /\ agents_to_invoke = <<>>
    /\ current_agent = ""
    /\ workflow_complete = FALSE
    /\ agent_results = [a \in Registry |-> "none"]
    /\ final_response = NoResponse
    /\ node = "analyze"
    /\ executed = <<>>
    /\ last = NoExec
    /\ abort = "none"

\* EmailDraft as stored (models.py:39-66); 0 stands for None
\* body stands for the content of the draft (to, cc, bcc, subject, body and
\* safety_checks): 0 as drafted, 1 after an edit
NoFile == [status |-> "absent", created_at |-> 0, updated_at |-> 0, sent_at |-> 0,
           gmail_message_id |-> 0, body |-> 0]
NoLoc == [d |-> 0, req |-> 0, retry |-> 0, copy |-> NoFile]
\* op: the handler that ran; done: it returned to its caller; ok: it reported
\* success; mail: it invoked the Mail client's send, pre: what the draft file
\* said at that moment, outcome: what the provider did; retried: it went to
\* sleep for another attempt; retry_count, msgid: fields of the SendResult;
\* req: the draft_id a send request carried (0: none)
NoEv == [op |-> "init", d |-> 0, req |-> 0, done |-> TRUE, ok |-> FALSE, mail |-> FALSE,
         pre |-> "absent", outcome |-> "none", retried |-> FALSE,
         retry_count |-> 0, msgid |-> 0]
NoHist == [approved |-> 0, sendOk |-> 0, failedEnd |-> FALSE]

Sat2(n) == IF n >= 2 THEN 2 ELSE n + 1

SetMax(S) == CHOOSE x \in S : \A y \in S : y <= x

RECURSIVE SumTo(_, _)
SumTo(f, n) == IF n = 0 THEN 0 ELSE f[n] + SumTo(f, n - 1)

\* messages accepted by the provider so far
nextMsg == SumTo(mailbox, MaxDrafts)

\* a request is served by the first free slot
\* a handler is entered for a new request
Receive == requests < MaxRequests /\ requests' = requests + 1

FreeSlot(p) == pc[p] = "idle" /\ \A q \in Procs : q < p => pc[q] # "idle"

\* DraftStorage.get_draft: None when the file does not exist, and None when
\* EmailDraft.from_dict rejects what the file holds (the exception is caught)
get_draft(st, d) ==
    IF d \in DraftIds /\ st[d].status \in DraftStatus THEN st[d] ELSE NoFile

\* DraftStorage.save_draft: "draft.updated_at = datetime.utcnow()", then the
\* file is written
save_draft(st, d, draft) == [st EXCEPT ![d] = [draft EXCEPT !.updated_at = now]]

Exists(st, d) == get_draft(st, d).status # "absent"

\* DraftStorage.get_drafts_by_session(session, status), then
\* max(drafts, key=created_at).id ; created_at grows with the id.  0 = none
MostRecent(st, status) ==
    LET S == {d \in DraftIds : st[d].status = status}
    IN IF S = {} THEN 0 ELSE SetMax(S)

\* metadata before output_formatter has run: {}
NoMetadata == [num_chunks |-> -1, original_text_length |-> -1, summary_length |-> -1]

\* initial_state of process_file; lengths stand for the texts, counts for the
\* lists, file_size for len(file_content)
initial_state(size, ext, query) ==
    [file_size |-> size, file_ext |-> ext, file_type |-> "", query |-> query,
     extracted_text |-> 0, chunks |-> 0, chunk_summaries |-> 0,
     final_summary |-> 0, metadata |-> NoMetadata, query_response |-> "none",
     current_step |-> "", errors |-> <<>>, workflow_complete |-> FALSE]

FileInit ==
    /\ fstate = initial_state(0, "", FALSE)
    /\ fnode = "idle"
    /\ ran = <<>>
    /\ failed = 0
    /\ fresult = "none"

NoRequest == [agent |-> "none", action |-> "none"]
\* id 0 stands for null; parsed: json.loads accepted the matcher's answer
NoMatch == [parsed |-> FALSE, id |-> 0, confidence |-> 0]
NoMutation == [action |-> "none", id |-> 0]

MatchInit ==
    /\ mreq = NoRequest
    /\ mpc = "idle"
    /\ listed = {}
    /\ match = NoMatch
    /\ mutation = NoMutation
    /\ mresult = "none"

\* no chat.json yet: get_session_file(...).exists() is false
NoChat == [content |-> <<>>, torn |-> FALSE]

ChatInit ==
    /\ chat_json = NoChat
    /\ wall = 0
    /\ cpc = [p \in Procs |-> "idle"]
    /\ cloc = [p \in Procs |-> 0]
    /\ chats = 0
    /\ run = [r \in 1..MaxChats |-> "none"]
    /\ history = <<>>

NoSlotRequest == [time_min |-> 0, time_max |-> 0, duration_minutes |-> 0,
                  calendar_ids |-> <<>>]

SlotInit ==
    /\ fb_request = NoSlotRequest
    /\ busy_periods = <<>>
    /\ slots_result = [free_slots |-> <<>>, total_slots |-> 0, status |-> "none"]

NoSafetyResult ==
    [called |-> FALSE, strict_mode |-> FALSE, passed |-> TRUE,
     checks |-> [pii_check |-> TRUE, toxic_check |-> TRUE, recipient_check |-> TRUE,
                 length_check |-> TRUE, subject_check |-> TRUE],
     flags |-> 0, length_flags |-> 0, risk_level |-> "low"]
NoDraft ==
    [status |-> "none", to |-> [local |-> "", domain |-> ""], cc_invalid |-> FALSE,
     subject |-> [len |-> 0, stripped |-> 0, upper |-> FALSE, spam |-> FALSE],
     body |-> [len |-> 0, pii |-> 0, toxic |-> FALSE],
     safety_checks |-> NoSafetyResult]

SafetyInit ==
    /\ safety_result = NoSafetyResult
    /\ new_draft = NoDraft

SecureInit ==
    /\ sec_request = [action |-> "none", draft |-> "None", access_token |-> "None"]
    /\ sec_result = [status |-> "none", called_provider |-> FALSE]
    /\ provider_calls = 0

StorageInit ==
    /\ draft_files = [d \in DraftIds |-> "absent"]
    /\ index_json = <<>>
    /\ deleted = {}
    /\ sret = [call |-> "none", value |-> 0]

Init ==
    /\ store = [d \in DraftIds |-> NoFile]
    /\ pending_approvals = [d \in DraftIds |-> NoExpiry]
    /\ now = 0
    /\ nextDraft = 0
    /\ mailbox = [d \in DraftIds |-> 0]
    /\ pc = [p \in Procs |-> "idle"]
    /\ loc = [p \in Procs |-> NoLoc]
    /\ ev = NoEv
    /\ requests = 0
    /\ hist = [d \in DraftIds |-> NoHist]
    /\ OrchInit
    /\ ChatInit
    /\ FileInit
    /\ MatchInit
    /\ StorageInit
    /\ SlotInit
    /\ SafetyInit
    /\ SecureInit

\* ---- clock ---------------------------------------------------------------
Tick ==
    /\ now + TickHours <= MaxNow
    /\ UNCHANGED nonEmailVars
    /\ now' = now + TickHours
    /\ ev' = NoEv
    /\ UNCHANGED <<store, pending_approvals, nextDraft, mailbox, pc,
                   loc, requests, hist>>

\* ---- EnhancedEmailAgent._handle_draft ------------------------------------
\* draft_email builds the draft (status DRAFTED, then PENDING_APPROVAL before
\* it is ever saved), save_draft, request_approval (save again, register).
HandleDraft ==
    /\ Receive
    /\ UNCHANGED nonEmailVars
    /\ nextDraft < MaxDrafts
    /\ LET d == nextDraft + 1 IN
        /\ nextDraft' = d
        /\ store' = save_draft(store, d, [NoFile EXCEPT !.status = "pending_approval",
                                                         !.created_at = now])
        /\ pending_approvals' = [pending_approvals EXCEPT
                                    ![d] = now + APPROVAL_TIMEOUT_HOURS]
        /\ ev' = [NoEv EXCEPT !.op = "draft", !.d = d]
    /\ UNCHANGED <<now, mailbox, pc, loc, hist>>

\* ---- ApprovalWorkflow.process_decision -----------------------------------
\* modifications_requested: no entry, or {"status": value}
NoMods == [field |-> "none", value |-> "none"]
\* "invalid" stands for any value that is no DraftStatus
ModValues == {"sent", "pending_approval", "invalid"}
Modifications == {NoMods} \cup {[field |-> "status", value |-> v] : v \in ModValues}

\* for field, value in modifications_requested.items(): setattr(draft, field, value)
ApplyModifications(draft, mods) ==
    IF mods.field = "status" THEN [draft EXCEPT !.status = mods.value] ELSE draft

\* the two "raise ValueError" of process_decision
DecisionRaises(st, d) ==
    \/ ~Exists(st, d)
    \/ get_draft(st, d).status # "pending_approval"

\* the draft process_decision saves
DecidedDraft(draft, approved, mods) ==
    IF approved
    THEN ApplyModifications([draft EXCEPT !.status = "approved"], mods)
    ELSE [draft EXCEPT !.status = "rejected"]

\* state after process_decision(decision) returned or raised
process_decision_store(st, d, approved, mods) ==
    IF DecisionRaises(st, d) THEN st
    ELSE save_draft(st, d, DecidedDraft(st[d], approved, mods))

process_decision_pending(st, pend, d) ==
    IF DecisionRaises(st, d) THEN pend ELSE [pend EXCEPT ![d] = NoExpiry]

CountApproved(h, d, ok) ==
    IF ok THEN [h EXCEPT ![d].approved = Sat2(@)] ELSE h

\* what an approve request did: the draft it was about, the stored status it
\* found, and whether it reported success
ApproveEv(d, pre, ok) == [NoEv EXCEPT !.op = "approve", !.d = d, !.pre = pre, !.ok = ok]

\* POST /email/approve (server.py:878-907); the response reads
\* draft.status.value, which a status set by setattr to a plain string lacks
ApproveEmail(d, mods) ==
    LET ok == ~DecisionRaises(store, d) /\ mods.field # "status" IN
    /\ Receive
    /\ UNCHANGED nonEmailVars
    /\ store' = process_decision_store(store, d, TRUE, mods)
    /\ pending_approvals' = process_decision_pending(store, pending_approvals, d)
    /\ ev' = ApproveEv(d, get_draft(store, d).status, ok)
    /\ hist' = CountApproved(hist, d, ok)
    /\ UNCHANGED <<now, nextDraft, mailbox, pc, loc>>

\* EnhancedEmailAgent._handle_approve; reqd = 0: the state has no draft_id
HandleApprove(reqd) ==
    LET d == IF reqd = 0 THEN MostRecent(store, "pending_approval") ELSE reqd
        ok == d # 0 /\ ~DecisionRaises(store, d) IN
    /\ Receive
    /\ UNCHANGED nonEmailVars
    /\ store' = IF d = 0 THEN store
                ELSE process_decision_store(store, d, TRUE, NoMods)
    /\ pending_approvals' = IF d = 0 THEN pending_approvals
                            ELSE process_decision_pending(store, pending_approvals, d)
    /\ ev' = ApproveEv(d, get_draft(store, d).status, ok)
    /\ hist' = IF d = 0 THEN hist ELSE CountApproved(hist, d, ok)
    /\ UNCHANGED <<now, nextDraft, mailbox, pc, loc>>

\* process_decision with decision.approved = False
Reject(d) ==
    /\ Receive
    /\ UNCHANGED nonEmailVars
    /\ store' = process_decision_store(store, d, FALSE, NoMods)
    /\ pending_approvals' = process_decision_pending(store, pending_approvals, d)
    /\ ev' = NoEv
    /\ UNCHANGED <<now, nextDraft, mailbox, pc, loc, hist>>

\* ---- ApprovalWorkflow.cancel_approval ------------------------------------
CancelApproval(d) ==
    LET found == pending_approvals[d] # NoExpiry IN
    /\ Receive
    /\ UNCHANGED nonEmailVars
    /\ pending_approvals' = [pending_approvals EXCEPT ![d] = NoExpiry]
    /\ store' = IF found /\ Exists(store, d)
                THEN save_draft(store, d, [store[d] EXCEPT !.status = "drafted"])
                ELSE store
    /\ ev' = NoEv
    /\ UNCHANGED <<now, nextDraft, mailbox, pc, loc, hist>>

\* ---- ApprovalWorkflow.check_expired_approvals ----------------------------
Overdue(pend, t, d) == pend[d] # NoExpiry /\ t > pend[d]

CheckExpiredApprovals ==
    /\ Receive
    /\ UNCHANGED nonEmailVars
    /\ store' = [d \in DraftIds |->
                    IF Overdue(pending_approvals, now, d)
                       /\ store[d].status = "pending_approval"
                    THEN [store[d] EXCEPT !.status = "rejected", !.updated_at = now]
                    ELSE store[d]]
    /\ pending_approvals' = [d \in DraftIds |->
                    IF Overdue(pending_approvals, now, d) THEN NoExpiry
                    ELSE pending_approvals[d]]
    /\ ev' = [NoEv EXCEPT !.op = "sweep"]
    /\ UNCHANGED <<now, nextDraft, mailbox, pc, loc, hist>>

\* ---- DraftStorage.delete_draft (DELETE /email/draft/{id}) ----------------
DeleteDraft(d) ==
    /\ Receive
    /\ UNCHANGED nonEmailVars
    /\ store' = IF Exists(store, d) THEN [store EXCEPT ![d] = NoFile] ELSE store
    /\ ev' = NoEv
    /\ UNCHANGED <<pending_approvals, now, nextDraft, mailbox, pc, loc,
                   hist>>

\* ---- DraftStorage.update_draft_status ------------------------------------
\* returns None and writes nothing when get_draft finds no file
update_draft_status(st, d, status, sent_at, msgid) ==
    IF ~Exists(st, d) THEN st
    ELSE save_draft(st, d,
            [st[d] EXCEPT !.status = status,
                          !.sent_at = IF sent_at # 0 THEN sent_at ELSE @,
                          !.gmail_message_id = IF msgid # 0 THEN msgid ELSE @])

\* ---- GmailConnector.send_email -------------------------------------------
\* "ok": the provider accepted the message and the response arrived;
\* "lost": the provider accepted it but .execute() raised (response lost);
\* "transient", "permanent": the provider refused (HttpError)
Accepted(outcome) == outcome \in {"ok", "lost"}
SendSuccess(outcome) == outcome = "ok"

\* ---- SendWorker._send_email ----------------------------------------------
\* "if retry_count < self.MAX_RETRIES" after a failed attempt; the error
\* class is not looked at
Retries(retry, outcome) == retry < MAX_RETRIES

\* status written when an attempt does not go to sleep
AttemptStore(st, d, retry, outcome, stamp) ==
    IF SendSuccess(outcome) THEN update_draft_status(st, d, "sent", stamp, stamp)
    ELSE IF Retries(retry, outcome) THEN st
    ELSE update_draft_status(st, d, "failed", 0, 0)

\* one attempt of _send_email(draft, token, retry) by request slot p, run on
\* the storage st; the send time and the provider's message id are both the
\* sequence number of the accepted message
send_email_attempt(p, st, d, reqd, retry, outcome) ==
    LET stamp == nextMsg + 1
        success == SendSuccess(outcome)
        sleeps == ~success /\ Retries(retry, outcome)
        st2 == AttemptStore(st, d, retry, outcome, stamp) IN
    /\ Accepted(outcome) => nextMsg < MaxMsgs
    /\ store' = st2
    /\ mailbox' = IF Accepted(outcome) THEN [mailbox EXCEPT ![d] = @ + 1] ELSE mailbox
    /\ pc' = [pc EXCEPT ![p] = IF sleeps THEN "send_sleep" ELSE "idle"]
    /\ loc' = [loc EXCEPT ![p] = IF sleeps THEN [NoLoc EXCEPT !.d = d, !.req = reqd,
                                                              !.retry = retry + 1]
                                 ELSE NoLoc]
    /\ ev' = [op |-> "send", d |-> d, req |-> reqd, done |-> ~sleeps, ok |-> success, mail |-> TRUE,
              pre |-> get_draft(st, d).status, outcome |-> outcome,
              retried |-> sleeps,
              retry_count |-> IF success \/ sleeps THEN 0 ELSE retry,
              msgid |-> IF success THEN stamp ELSE 0]
    /\ hist' = [hist EXCEPT
                  ![d].sendOk = IF success THEN Sat2(@) ELSE @,
                  ![d].failedEnd = @ \/ (~success /\ ~sleeps /\ st2[d].status = "failed")]

\* ---- EnhancedEmailAgent._handle_send -------------------------------------
\* draft id the request is about: the one given, else the most recent
\* approved draft of the session, else the most recent pending one
ResolveSend(st, reqd) ==
    IF reqd # 0 THEN reqd
    ELSE IF MostRecent(st, "approved") # 0 THEN MostRecent(st, "approved")
    ELSE MostRecent(st, "pending_approval")

\* the checks of send_approved_draft and queue_send
SendAllowed(status) == status = "approved"

\* reqd = 0: no draft_id in the state; token: an access_token is present
HandleSend(p, reqd, token, outcome) ==
    /\ Receive
    /\ UNCHANGED nonEmailVars
    /\ FreeSlot(p)
    /\ LET d == ResolveSend(store, reqd)
           found == d # 0 /\ token /\ Exists(store, d)
           auto == found /\ store[d].status = "pending_approval"
           st1 == IF auto THEN process_decision_store(store, d, TRUE, NoMods) ELSE store
           pend1 == IF auto THEN process_decision_pending(store, pending_approvals, d)
                    ELSE pending_approvals IN
        IF found /\ SendAllowed(st1[d].status)
        THEN /\ pending_approvals' = pend1
             /\ send_email_attempt(p, st1, d, reqd, 0, outcome)
             /\ UNCHANGED <<now, nextDraft>>
        ELSE /\ ev' = [NoEv EXCEPT !.op = "send", !.d = d, !.req = reqd]
             /\ UNCHANGED <<store, pending_approvals, now, nextDraft, mailbox, pc, loc, hist>>

\* the coroutine wakes up from asyncio.sleep(RETRY_DELAY_SECONDS) and calls
\* _send_email(draft, access_token, retry_count + 1) with the draft object it
\* was given at the start
SendRetry(p, outcome) ==
    /\ pc[p] = "send_sleep"
    /\ UNCHANGED nonEmailVars
    /\ send_email_attempt(p, store, loc[p].d, loc[p].req, loc[p].retry, outcome)
    /\ UNCHANGED <<pending_approvals, now, nextDraft, requests>>

\* ---- EnhancedEmailAgent._handle_update -----------------------------------
\* get_draft, then EmailDrafter.update_draft, which awaits the LLM when the
\* state carries a user_request, then save_draft of the loaded object
\* EmailDrafter.update_draft, "Apply direct field updates": modifications
\* tells whether the state's modifications name a content field
apply_modifications(draft, modifications) ==
    IF modifications THEN [draft EXCEPT !.body = 1] ELSE draft

\* "draft.body = updated_content['body']"; _regenerate_content returns the
\* old content when the LLM call or the parsing of its answer fails
apply_regenerated(draft, regenerated) ==
    IF regenerated THEN [draft EXCEPT !.body = 1] ELSE draft

HandleUpdate(p, d, user_request, modifications) ==
    /\ Receive
    /\ UNCHANGED nonEmailVars
    /\ FreeSlot(p)
    /\ ev' = NoEv
    /\ IF ~Exists(store, d)
       THEN UNCHANGED <<store, pc, loc>>
       ELSE IF user_request
       THEN /\ pc' = [pc EXCEPT ![p] = "update_llm"]
            /\ loc' = [loc EXCEPT ![p] =
                         [NoLoc EXCEPT !.d = d,
                                       !.copy = apply_modifications(store[d], modifications)]]
            /\ UNCHANGED store
       ELSE /\ store' = save_draft(store, d, apply_modifications(store[d], modifications))
            /\ UNCHANGED <<pc, loc>>
    /\ UNCHANGED <<pending_approvals, now, nextDraft, mailbox, hist>>

\* the LLM answered: save_draft(updated_draft) writes the whole loaded object
UpdateResume(p, regenerated) ==
    /\ pc[p] = "update_llm"
    /\ UNCHANGED nonEmailVars
    /\ store' = save_draft(store, loc[p].d, apply_regenerated(loc[p].copy, regenerated))
    /\ pc' = [pc EXCEPT ![p] = "idle"]
    /\ loc' = [loc EXCEPT ![p] = NoLoc]
    /\ ev' = NoEv
    /\ UNCHANGED <<pending_approvals, now, nextDraft, mailbox, requests, hist>>

\* ---- DraftStorage.cleanup_old_drafts -------------------------------------
\* retention periods a caller may pass, in days
Days == {0, 1}

\* "cutoff = datetime.utcnow().timestamp() - (days * 86400)", in hours
cutoff(t, days) == t - days * 24

\* the filter of the loop body: a terminal status and updated_at before cutoff
OldTerminal(st, t, days, d) ==
    /\ st[d].status \in {"sent", "rejected", "failed"}
    /\ st[d].updated_at < cutoff(t, days)

\* "for draft_file in self.storage_dir.glob(...)": DraftStorage has no
\* attribute storage_dir, the AttributeError is caught by the outer except,
\* which returns 0; no file has been looked at
CleanupOldDrafts(days) ==
    /\ Receive
    /\ UNCHANGED nonEmailVars
    /\ ev' = [NoEv EXCEPT !.op = "cleanup"]
    /\ UNCHANGED <<store, pending_approvals, now, nextDraft, mailbox, pc, loc, hist>>

Next ==
    \/ Tick
    \/ \E days \in Days : CleanupOldDrafts(days)
    \/ HandleDraft
    \/ \E d \in DraftIds, mods \in Modifications : ApproveEmail(d, mods)
    \/ \E reqd \in {0} \cup DraftIds : HandleApprove(reqd)
    \/ \E d \in DraftIds : Reject(d)
    \/ \E d \in DraftIds : CancelApproval(d)
    \/ CheckExpiredApprovals
    \/ \E d \in DraftIds : DeleteDraft(d)
    \/ \E p \in Procs, reqd \in {0} \cup DraftIds, token \in BOOLEAN,
          outcome \in Outcomes : HandleSend(p, reqd, token, outcome)
    \/ \E p \in Procs, outcome \in Outcomes : SendRetry(p, outcome)
    \/ \E p \in Procs, d \in DraftIds, user_request \in BOOLEAN,
          modifications \in BOOLEAN :
          HandleUpdate(p, d, user_request, modifications)
    \/ \E p \in Procs, regenerated \in BOOLEAN : UpdateResume(p, regenerated)

Spec == Init /\ [][Next]_vars

\* the operations that have a caller in the server: the routes of server.py
\* (846-1014) and the orchestrator's email step (dynamic_orchestrator.py:
\* 400-421), which passes an action but never a draft_id
NextServer ==
    \/ HandleDraft
    \/ \E d \in DraftIds, mods \in Modifications : ApproveEmail(d, mods)
    \/ HandleApprove(0)
    \/ \E d \in DraftIds : DeleteDraft(d)
    \/ \E p \in Procs, reqd \in {0} \cup DraftIds, token \in BOOLEAN,
          outcome \in Outcomes : HandleSend(p, reqd, token, outcome)
    \/ \E p \in Procs, outcome \in Outcomes : SendRetry(p, outcome)

SpecServer == Init /\ [][NextServer]_vars

TypeOK ==
    /\ \A d \in DraftIds : store[d].status \in DraftStatus \cup {"absent", "invalid"}
    /\ nextMsg \in 0..MaxMsgs
    /\ \A p \in Procs : pc[p] \in {"idle", "send_sleep", "update_llm"}

\* ==== orchestrator (dynamic_orchestrator.py) ===============================

Range(s) == {s[i] : i \in 1..Len(s)}

\* list.index(x): position of the first occurrence
IndexOf(s, x) == CHOOSE i \in 1..Len(s) : s[i] = x /\ \A j \in 1..(i - 1) : s[j] # x

\* "for agent_name in detected_agents: if agent_name not in
\* state['agents_to_invoke']: append"; detected_agents follows keyword_map
RECURSIVE Fallback(_, _, _)
Fallback(agents, detected, i) ==
    IF i > Len(KeywordOrder) THEN agents
    ELSE LET a == KeywordOrder[i] IN
         Fallback(IF a \in detected /\ a \notin Range(agents)
                  THEN Append(agents, a) ELSE agents,
                  detected, i + 1)

\* agents_to_invoke at the end of _analyze_request: planned is the list in the
\* planner's answer, no_action its workflow_type = "no_action", detected the
\* agents whose keywords occur in the request
analyze_request(planned, no_action, detected) ==
    IF no_action THEN planned ELSE Fallback(planned, detected, 1)

AnalyzeRequest(planned, no_action, detected) ==
    /\ node = "analyze"
    /\ agents_to_invoke' = analyze_request(planned, no_action, detected)
    /\ node' = "route"
    /\ UNCHANGED <<current_agent, workflow_complete, agent_results,
                   final_response, executed, last, abort>>
    /\ UNCHANGED nonOrchVars

\* chain.ainvoke raises (the model call fails, or JsonOutputParser cannot
\* parse the answer); process_request catches it and returns an error response
AnalyzeFails ==
    /\ node = "analyze"
    /\ node' = "error"
    /\ abort' = "analysis"
    /\ UNCHANGED <<agents_to_invoke, current_agent, workflow_complete,
                   agent_results, final_response, executed, last>>
    /\ UNCHANGED nonOrchVars

\* _route_agents; the edge to execute_agent is unconditional
RouteAgents ==
    /\ node = "route"
    /\ IF agents_to_invoke # <<>>
       THEN current_agent' = agents_to_invoke[1] /\ UNCHANGED workflow_complete
       ELSE workflow_complete' = TRUE /\ UNCHANGED current_agent
    /\ node' = "execute"
    /\ UNCHANGED <<agents_to_invoke, agent_results, final_response, executed,
                   last, abort>>
    /\ UNCHANGED nonOrchVars

\* what can go wrong inside an agent call
Faults == {"none", "missing_token", "auth_required", "llm_failure",
           "provider_failure", "unparsable_output", "illegal_state", "no_file"}

AgentFaults(agent) ==
    CASE agent = "email_agent" -> Faults \ {"no_file"}
      [] agent = "file_agent" -> {"none", "no_file", "llm_failure", "unparsable_output"}
      [] agent = "general_agent" -> {"none", "llm_failure"}
      [] OTHER -> {"none", "missing_token", "llm_failure", "provider_failure",
                   "unparsable_output"}

\* how the agent's process operation ends.  The first LLM call of the calendar
\* and the notes agent stands outside every try block; the email, file and
\* general agents wrap their whole body in "except Exception".  The email
\* agent's read action answers a missing token with "Authentication required"
process(agent, fault) ==
    IF fault = "none" THEN "success"
    ELSE IF fault = "llm_failure" /\ agent \in {"calendar_agent", "notes_agent"}
    THEN "raise"
    ELSE IF fault = "auth_required" THEN "auth_error"
    ELSE "error"

\* the _execute_*_agent methods that wrap the call in try/except and
\* asyncio.wait_for; _execute_notes_agent and _execute_file_agent do neither
Wrapped == {"calendar_agent", "email_agent", "general_agent"}

\* status of the result stored in the agent's slot
Slot(outcome) ==
    IF outcome \in {"success", "auth_error"} THEN outcome ELSE "error"

IsError(status) == status \in {"error", "auth_error"}

\* _execute_agent: dispatch on current_agent, an unknown name is skipped
ExecuteAgent(fault, timeout) ==
    /\ node = "execute"
    /\ Len(executed) < MaxSteps
    /\ executed' = Append(executed, current_agent)
    /\ IF current_agent \notin Registry
       THEN /\ fault = "none" /\ ~timeout
            /\ node' = "check"
            /\ last' = NoExec
            /\ UNCHANGED <<agent_results, abort>>
       ELSE LET outcome == IF timeout THEN "timeout"
                           ELSE process(current_agent, fault) IN
            /\ fault \in AgentFaults(current_agent)
            /\ timeout => fault = "none"
            /\ last' = [agent |-> current_agent, outcome |-> outcome]
            /\ IF current_agent \in Wrapped \/ outcome \notin {"raise", "timeout"}
               THEN /\ agent_results' = [agent_results EXCEPT
                                            ![current_agent] = Slot(outcome)]
                    /\ node' = "check"
                    /\ UNCHANGED abort
               ELSE IF outcome = "raise"
               THEN /\ node' = "error"
                    /\ abort' = "agent"
                    /\ UNCHANGED agent_results
               ELSE /\ node' = "hung"
                    /\ UNCHANGED <<agent_results, abort>>
    /\ UNCHANGED <<agents_to_invoke, current_agent, workflow_complete,
                   final_response>>
    /\ UNCHANGED nonOrchVars

\* the graph library ends a run that keeps cycling between execute_agent and
\* check_next with an exception, which process_request catches
RecursionLimit ==
    /\ node = "execute"
    /\ Len(executed) = MaxSteps
    /\ node' = "error"
    /\ abort' = "recursion"
    /\ UNCHANGED <<agents_to_invoke, current_agent, workflow_complete,
                   agent_results, final_response, executed, last>>
    /\ UNCHANGED nonOrchVars

\* _check_next, then _should_continue
CheckNext ==
    LET agents == agents_to_invoke
        more == /\ current_agent \in Range(agents)
                /\ IndexOf(agents, current_agent) + 1 <= Len(agents) IN
    /\ node = "check"
    /\ IF more
       THEN /\ current_agent' = agents[IndexOf(agents, current_agent) + 1]
            /\ UNCHANGED workflow_complete
       ELSE /\ workflow_complete' = TRUE
            /\ UNCHANGED current_agent
    /\ node' = IF workflow_complete' THEN "compile" ELSE "execute"
    /\ UNCHANGED <<agents_to_invoke, agent_results, final_response, executed,
                   last, abort>>
    /\ UNCHANGED nonOrchVars

agents_used == {a \in Registry : agent_results[a] # "none"}
response_parts == {a \in agents_used : agent_results[a] = "success"}

\* _compile_response.  shown: the agents whose message is part of the final
\* response.  llm: what the compiling model call does with the agents'
\* messages (it is used only when no other branch applies)
CompileResponse(llm) ==
    /\ node = "compile"
    /\ IF Cardinality(agents_used) > 1 /\ response_parts # {}
       THEN /\ llm = "verbatim"
            /\ final_response' = [kind |-> "parts", shown |-> response_parts]
            /\ node' = "end"
            /\ UNCHANGED abort
       ELSE IF agents_used \in {{"email_agent"}, {"general_agent"}}
       THEN /\ llm = "verbatim"
            /\ final_response' =
                 IF agent_results["email_agent"] = "auth_error"
                 THEN [kind |-> "tailored", shown |-> {}]
                 ELSE [kind |-> "handler", shown |-> agents_used]
            /\ node' = "end"
            /\ UNCHANGED abort
       ELSE IF llm = "fails"
       THEN /\ node' = "error"
            /\ abort' = "compile"
            /\ UNCHANGED final_response
       ELSE /\ final_response' =
                 [kind |-> "llm",
                  shown |-> IF llm = "verbatim" THEN agents_used ELSE {}]
            /\ node' = "end"
            /\ UNCHANGED abort
    /\ UNCHANGED <<agents_to_invoke, current_agent, workflow_complete,
                   agent_results, executed, last>>
    /\ UNCHANGED nonOrchVars

NextOrch ==
    \/ \E planned \in PlannerLists, no_action \in BOOLEAN,
          detected \in SUBSET Registry :
          AnalyzeRequest(planned, no_action, detected)
    \/ AnalyzeFails
    \/ RouteAgents
    \/ \E fault \in Faults, timeout \in BOOLEAN : ExecuteAgent(fault, timeout)
    \/ RecursionLimit
    \/ CheckNext
    \/ \E llm \in {"verbatim", "rewritten", "fails"} : CompileResponse(llm)

SpecOrch == Init /\ [][NextOrch]_vars

\* ==== chat transcript (server.py:523-611, database_utils.py:60-107) ========

ChatIds == 1..MaxChats

\* ChatMessage(sender=..., timestamp=datetime.now(timezone.utc), ...) of chat
\* request r; the timestamp survives isoformat / fromisoformat unchanged
ChatMessage(r, sender) == [rid |-> r, sender |-> sender, timestamp |-> wall]

\* save_message: json.load of the existing file, append, json.dump; a file
\* that does not parse makes json.load raise, which save_message re-raises
save_raises(f) == f.torn
save_message(f, m) ==
    IF save_raises(f) THEN f ELSE [f EXCEPT !.content = Append(@, m)]

\* sorted(messages, key=lambda x: x.timestamp) is stable: a message goes
\* after every message whose timestamp is not larger than its own
Insert(s, m) ==
    LET k == Cardinality({i \in 1..Len(s) : s[i].timestamp <= m.timestamp})
    IN SubSeq(s, 1, k) \o <<m>> \o SubSeq(s, k + 1, Len(s))

RECURSIVE sorted(_)
sorted(s) ==
    IF s = <<>> THEN <<>>
    ELSE Insert(sorted(SubSeq(s, 1, Len(s) - 1)), s[Len(s)])

\* the messages in file order, as a reader without the final sort returns them
unsorted_history(f) == IF f.torn THEN <<>> ELSE f.content

\* get_chat_history_by_session: [] when there is no file, [] when anything
\* raises (json.load of a torn file), else the messages sorted by timestamp
get_chat_history_by_session(f) == IF f.torn THEN <<>> ELSE sorted(f.content)

FreeChatSlot(p) == cpc[p] = "idle" /\ \A q \in Procs : q < p => cpc[q] # "idle"

\* the system clock is read, not owned, by the server: it moves forward, and
\* an adjustment (NTP step, operator) moves it backward
WallClock(t) ==
    /\ t # wall
    /\ wall' = t
    /\ history' = <<>>
    /\ UNCHANGED <<chat_json, cpc, cloc, chats, run>>
    /\ UNCHANGED nonChatVars

\* POST /enhanced-chat up to "await enhanced_orchestrator.process_request":
\* the user message is saved, then the coroutine waits for the orchestrator.
\* A save that raises ends the request with HTTP 500.
ChatStart(p) ==
    /\ chats < MaxChats
    /\ FreeChatSlot(p)
    /\ LET r == chats + 1 IN
        /\ chats' = r
        /\ chat_json' = save_message(chat_json, ChatMessage(r, "user"))
        /\ IF save_raises(chat_json)
           THEN /\ run' = [run EXCEPT ![r] = "failed"]
                /\ UNCHANGED <<cpc, cloc>>
           ELSE /\ run' = [run EXCEPT ![r] = "running"]
                /\ cpc' = [cpc EXCEPT ![p] = "orchestrating"]
                /\ cloc' = [cloc EXCEPT ![p] = r]
    /\ history' = <<>>
    /\ UNCHANGED wall
    /\ UNCHANGED nonChatVars

\* process_request returned (it returns a dict with "response" on every
\* path): the agent message is saved and the response is sent
ChatFinish(p) ==
    /\ cpc[p] = "orchestrating"
    /\ chat_json' = save_message(chat_json, ChatMessage(cloc[p], "agent"))
    /\ run' = [run EXCEPT ![cloc[p]] = IF save_raises(chat_json) THEN "failed" ELSE "done"]
    /\ cpc' = [cpc EXCEPT ![p] = "idle"]
    /\ cloc' = [cloc EXCEPT ![p] = 0]
    /\ history' = <<>>
    /\ UNCHANGED <<wall, chats>>
    /\ UNCHANGED nonChatVars

\* the request's task is cancelled while it waits for the orchestrator:
\* CancelledError is no Exception, "except Exception" does not catch it, and
\* there is no finally / compensation: nothing is written or removed
ChatCancel(p) ==
    /\ cpc[p] = "orchestrating"
    /\ run' = [run EXCEPT ![cloc[p]] = "cancelled"]
    /\ cpc' = [cpc EXCEPT ![p] = "idle"]
    /\ cloc' = [cloc EXCEPT ![p] = 0]
    /\ history' = <<>>
    /\ UNCHANGED <<chat_json, wall, chats>>
    /\ UNCHANGED nonChatVars

\* the process dies inside save_message of message m.  open(file, 'w')
\* truncates the file and json.dump writes it piece by piece, so the file is
\* left as it was ("before": the crash came before open), truncated or
\* partly written ("torn"), or complete ("after")
CrashPoints == {"before", "torn", "after"}
crashed_file(f, m, point) ==
    IF save_raises(f) \/ point = "before" THEN f
    ELSE IF point = "torn" THEN [f EXCEPT !.torn = TRUE]
    ELSE save_message(f, m)

\* every request in flight dies with the process
Restarted(r) == [x \in ChatIds |-> IF x = r \/ run[x] = "running" THEN "crashed" ELSE run[x]]

\* crash while a new request saves its user message
CrashInStart(point) ==
    /\ chats < MaxChats
    /\ LET r == chats + 1 IN
        /\ chats' = r
        /\ chat_json' = crashed_file(chat_json, ChatMessage(r, "user"), point)
        /\ run' = Restarted(r)
    /\ cpc' = [p \in Procs |-> "idle"]
    /\ cloc' = [p \in Procs |-> 0]
    /\ history' = <<>>
    /\ UNCHANGED wall
    /\ UNCHANGED nonChatVars

\* crash while request slot p saves its agent message
CrashInFinish(p, point) ==
    /\ cpc[p] = "orchestrating"
    /\ chat_json' = crashed_file(chat_json, ChatMessage(cloc[p], "agent"), point)
    /\ run' = Restarted(cloc[p])
    /\ cpc' = [q \in Procs |-> "idle"]
    /\ cloc' = [q \in Procs |-> 0]
    /\ history' = <<>>
    /\ UNCHANGED <<wall, chats>>
    /\ UNCHANGED nonChatVars

\* GET /chat/{session_id}
ReadHistory ==
    /\ history' = get_chat_history_by_session(chat_json)
    /\ UNCHANGED <<chat_json, wall, cpc, cloc, chats, run>>
    /\ UNCHANGED nonChatVars

NextChat ==
    \/ \E t \in 0..MaxWall : WallClock(t)
    \/ \E p \in Procs : ChatStart(p)
    \/ \E p \in Procs : ChatFinish(p)
    \/ \E p \in Procs : ChatCancel(p)
    \/ \E point \in CrashPoints : CrashInStart(point)
    \/ \E p \in Procs, point \in CrashPoints : CrashInFinish(p, point)
    \/ ReadHistory

SpecChat == Init /\ [][NextChat]_vars

\* ==== file summarizer (advanced_file_summarizer_agent.py) ===================

\* "len(file_content) > 50 * 1024 * 1024"
MAX_FILE_SIZE == 50 * 1024 * 1024
FileSizes == {0, 1, MAX_FILE_SIZE - 1, MAX_FILE_SIZE, MAX_FILE_SIZE + 1}

\* self.supported_types, two of its entries; ".exe" is not among its keys
FileExts == {".txt", ".pdf", ".exe"}
supported_types == [e \in {".txt", ".pdf"} |-> IF e = ".txt" THEN "txt" ELSE "pdf"]

\* the size check with the limit itself rejected
TooLargeFromLimit(size) == size >= MAX_FILE_SIZE

TooLarge(size) == size > MAX_FILE_SIZE

\* a node has run: it returned state st, erred tells whether it set errors
RunNode(name, st, erred, next) ==
    /\ fnode = name
    /\ fstate' = st
    /\ ran' = Append(ran, name)
    /\ failed' = IF erred /\ failed = 0 THEN Len(ran) + 1 ELSE failed
    /\ fnode' = next
    /\ UNCHANGED nonFileVars

SetError(st, msg) == [st EXCEPT !.errors = <<msg>>]

\* process_file: cached tells whether _check_cached_summary found an earlier
\* summary in the conversation history; then the graph is not run
ProcessFile(size, ext, query, cached) ==
    /\ fnode \in {"idle", "end"}
    /\ fstate' = initial_state(size, ext, query)
    /\ ran' = <<>>
    /\ failed' = 0
    /\ fnode' = IF cached THEN "end" ELSE "file_ingestor"
    /\ fresult' = IF cached THEN "success" ELSE "none"
    /\ UNCHANGED nonFileVars

\* _file_ingestor; the edge to text_extractor is unconditional
file_ingestor(st) ==
    IF st.file_size = 0
    THEN [SetError(st, "No file content provided") EXCEPT !.workflow_complete = TRUE]
    ELSE IF TooLarge(st.file_size)
    THEN [SetError(st, "File too large (max 50MB)") EXCEPT !.workflow_complete = TRUE]
    ELSE IF st.file_ext \notin DOMAIN supported_types
    THEN [SetError(st, "Unsupported file type") EXCEPT !.workflow_complete = TRUE]
    ELSE [st EXCEPT !.file_type = supported_types[st.file_ext],
                    !.current_step = "file_ingested"]

FileIngestor ==
    /\ RunNode("file_ingestor", file_ingestor(fstate),
               file_ingestor(fstate).errors # <<>>, "text_extractor")
    /\ UNCHANGED fresult

\* _text_extractor; has_fitz: PyMuPDF could be imported; raises: the
\* extractor raised; text: the length of the text it returned
text_extractor(st, has_fitz, raises, text) ==
    IF st.file_size = 0 \/ st.file_type = ""
    THEN SetError(st, "Missing file content or type")
    ELSE IF st.file_type = "pdf" /\ ~has_fitz
    THEN SetError(st, "No extractor available")
    ELSE IF raises
    THEN SetError(st, "Text extraction error")
    ELSE [st EXCEPT !.extracted_text = text, !.current_step = "text_extracted"]

TextExtractor(has_fitz, raises, text) ==
    /\ RunNode("text_extractor", text_extractor(fstate, has_fitz, raises, text),
               text_extractor(fstate, has_fitz, raises, text).current_step # "text_extracted",
               "chunker")
    /\ UNCHANGED fresult

\* _chunker; n: len(self.text_splitter.split_text(extracted_text)), which is
\* 0 for a text of separators only and never more than the characters
chunker(st, n) ==
    IF st.extracted_text = 0 THEN SetError(st, "No text to chunk - extracted_text is empty")
    ELSE [st EXCEPT !.chunks = n, !.current_step = "text_chunked"]

Chunker(n) ==
    /\ n <= fstate.extracted_text
    /\ RunNode("chunker", chunker(fstate, n), fstate.extracted_text = 0, "summarizer")
    /\ UNCHANGED fresult

\* _summarizer; raises: one of its LLM calls raised; summary: the length of
\* the text the LLM returned for the document
summarizer(st, raises, summary) ==
    IF st.chunks = 0 THEN SetError(st, "No chunks to summarize")
    ELSE IF raises THEN SetError(st, "Summarization error")
    ELSE [st EXCEPT !.chunk_summaries = st.chunks, !.final_summary = summary,
                    !.current_step = "summaries_generated"]

\* _should_process_query
should_process_query(st) == IF st.query THEN "query_processor" ELSE "output_formatter"

Summarizer(raises, summary) ==
    /\ RunNode("summarizer", summarizer(fstate, raises, summary),
               fstate.chunks = 0 \/ raises, should_process_query(fstate))
    /\ UNCHANGED fresult

\* _query_processor; answered: the LLM call returned
query_processor(st, answered) ==
    IF ~st.query \/ st.chunks = 0 THEN [st EXCEPT !.query_response = "unable"]
    ELSE [st EXCEPT !.query_response = IF answered THEN "answer" ELSE "error"]

QueryProcessor(answered) ==
    /\ RunNode("query_processor", query_processor(fstate, answered), FALSE,
               "output_formatter")
    /\ UNCHANGED fresult

\* _output_formatter
output_formatter(st) ==
    [st EXCEPT !.metadata = [num_chunks |-> st.chunks,
                             original_text_length |-> st.extracted_text,
                             summary_length |-> st.final_summary],
               !.workflow_complete = TRUE,
               !.current_step = "output_formatted"]

\* output_formatter, the edge to END, and what process_file makes of the
\* final state: "if final_state.get('errors')"
OutputFormatter ==
    /\ RunNode("output_formatter", output_formatter(fstate), FALSE, "end")
    /\ fresult' = IF fstate.errors # <<>> THEN "error" ELSE "success"

NextFile ==
    \/ \E size \in FileSizes, ext \in FileExts, query \in BOOLEAN, cached \in BOOLEAN :
          ProcessFile(size, ext, query, cached)
    \/ FileIngestor
    \/ \E has_fitz \in BOOLEAN, raises \in BOOLEAN, text \in 0..MaxLen :
          TextExtractor(has_fitz, raises, text)
    \/ \E n \in 0..MaxChunks : Chunker(n)
    \/ \E raises \in BOOLEAN, summary \in 0..MaxLen : Summarizer(raises, summary)
    \/ \E answered \in BOOLEAN : QueryProcessor(answered)
    \/ OutputFormatter

SpecFile == Init /\ [][NextFile]_vars

\* ==== update / delete by matching (calendar_agent.py:284-539, ================
\* ==== notes_agent.py:337-608) ================================================

\* ids of the events / documents at the provider
ProviderIds == 1..MaxIds
\* ids the matcher model can answer: null, an id of the provider, or an id
\* that names nothing
MatcherIds == 0..(MaxIds + 1)
\* confidence values in tenths
Confidences == {0, ConfidenceThreshold - 1, ConfidenceThreshold, 10}
MatchAgents == {"calendar_agent", "notes_agent"}
MatchActions == {"update", "delete"}

\* action == "update" / "delete" up to the matcher's LLM call: the checks of
\* access_token and of the query, then list_events / search_documents;
\* found: what the provider listed (empty also when the listing failed)
MatchStart(agent, action, token, query, found) ==
    /\ mpc \in {"idle", "done"}
    /\ mreq' = [agent |-> agent, action |-> action]
    /\ match' = NoMatch
    /\ mutation' = NoMutation
    /\ IF ~token \/ ~query \/ found = {}
       THEN /\ mpc' = "done"
            /\ listed' = IF token /\ query THEN found ELSE {}
            /\ mresult' = "error"
       ELSE /\ mpc' = "matching"
            /\ listed' = found
            /\ mresult' = "none"
    /\ UNCHANGED nonMatchVars

\* "if not event_id or confidence < 0.5": the match is refused
refused(id, confidence) == id = 0 \/ confidence < ConfidenceThreshold

\* the matcher answered: json.loads, the check of id and confidence, then
\* update_event / delete_event / update_document / delete_document with the
\* id the matcher gave; provider_ok: the provider carried the call out
MatchResume(parsed, id, confidence, provider_ok) ==
    /\ mpc = "matching"
    /\ mpc' = "done"
    /\ match' = IF parsed THEN [parsed |-> TRUE, id |-> id, confidence |-> confidence]
                 ELSE NoMatch
    /\ IF ~parsed \/ refused(id, confidence)
       THEN /\ mutation' = NoMutation
            /\ mresult' = "error"
       ELSE /\ mutation' = [action |-> mreq.action, id |-> id]
            /\ mresult' = IF provider_ok THEN "success" ELSE "error"
    /\ UNCHANGED <<mreq, listed>>
    /\ UNCHANGED nonMatchVars

NextMatch ==
    \/ \E agent \in MatchAgents, action \in MatchActions, token \in BOOLEAN,
          query \in BOOLEAN, found \in SUBSET ProviderIds :
          MatchStart(agent, action, token, query, found)
    \/ \E parsed \in BOOLEAN, id \in MatcherIds, confidence \in Confidences,
          provider_ok \in BOOLEAN : MatchResume(parsed, id, confidence, provider_ok)

SpecMatch == Init /\ [][NextMatch]_vars

\* ==== draft storage and its session index (draft_storage.py) ================

\* the index update without the membership test
append_to_index(ix, d) == Append(ix, d)

\* _update_session_index: "if draft_id not in draft_ids: append"
update_session_index(ix, d) == IF d \in Range(ix) THEN ix ELSE Append(ix, d)

\* _remove_from_session_index: list.remove takes out the first occurrence
remove_from_session_index(ix, d) ==
    IF d \notin Range(ix) THEN ix
    ELSE SubSeq(ix, 1, IndexOf(ix, d) - 1) \o SubSeq(ix, IndexOf(ix, d) + 1, Len(ix))

\* save_draft(draft): the draft file is written, then the index is updated.
\* The file may say a DraftStatus, or "invalid": a value from_dict rejects
\* (assignments to a loaded draft are not validated)
StorageSave(d, status) ==
    /\ draft_files' = [draft_files EXCEPT ![d] = status]
    /\ index_json' = update_session_index(index_json, d)
    /\ sret' = [call |-> "save_draft", value |-> d]
    /\ UNCHANGED deleted
    /\ UNCHANGED nonStorageVars

\* delete_draft(draft_id): get_draft first, False when it returns None (no
\* file, or a file from_dict rejects); else unlink and index removal
StorageDelete(d) ==
    /\ IF draft_files[d] \in DraftStatus
       THEN /\ draft_files' = [draft_files EXCEPT ![d] = "absent"]
            /\ index_json' = remove_from_session_index(index_json, d)
            /\ deleted' = deleted \cup {d}
            /\ sret' = [call |-> "delete_draft", value |-> 1]
       ELSE /\ sret' = [call |-> "delete_draft", value |-> 0]
            /\ UNCHANGED <<draft_files, index_json, deleted>>
    /\ UNCHANGED nonStorageVars

\* cleanup_old_drafts(days): fails on self.storage_dir before any file is
\* looked at and returns 0
StorageCleanup(days) ==
    /\ sret' = [call |-> "cleanup_old_drafts", value |-> 0]
    /\ UNCHANGED <<draft_files, index_json, deleted>>
    /\ UNCHANGED nonStorageVars

NextStorage ==
    \/ \E d \in DraftIds, status \in DraftStatus \cup {"invalid"} : StorageSave(d, status)
    \/ \E d \in DraftIds : StorageDelete(d)
    \/ \E days \in Days : StorageCleanup(days)

SpecStorage == Init /\ [][NextStorage]_vars

\* ==== free slots of a calendar window (google_calendar_connector.py) ========

SlotLimit == 10

Durations == 1..MaxDuration

\* the busy list the provider returns for one calendar lies inside the queried
\* window and is in time order: a recurring meeting, clipped at time_max
Recurring(offset, period, len, tmin, tmax) ==
    LET n == Cardinality({k \in 0..tmax : tmin + offset + k * period < tmax})
    IN  [k \in 1..n |->
            LET start == tmin + offset + (k - 1) * period
            IN  [start |-> start,
                 end |-> IF start + len < tmax THEN start + len ELSE tmax]]

RecurringBusy(tmin, tmax) ==
    {<<>>} \cup {Recurring(o, p, l, tmin, tmax) : o \in {0, 1}, p \in {2, 3}, l \in {1, 2}}

\* a calendar with at most one meeting anywhere in the window
OneOffBusy(tmin, tmax) ==
    {<<>>} \cup {<<[start |-> iv[1], end |-> iv[2]]>> :
                    iv \in {x \in (tmin..tmax) \X (tmin..tmax) : x[1] < x[2]}}

\* the replies possible for a list of calendar ids: one busy list per id,
\* recurring meetings for primary and "a", at most one meeting for "b"
Replies(calendar_ids, tmin, tmax) ==
    IF Len(calendar_ids) = 1
    THEN {<<p>> : p \in RecurringBusy(tmin, tmax)}
    ELSE IF Len(calendar_ids) = 2
    THEN {<<p, a>> : p \in RecurringBusy(tmin, tmax), a \in RecurringBusy(tmin, tmax)}
    ELSE {<<p, a, b>> : p \in RecurringBusy(tmin, tmax),
                        a \in RecurringBusy(tmin, tmax),
                        b \in OneOffBusy(tmin, tmax)}

\* busy_periods.extend(...) over the calendars of the reply
RECURSIVE extend_all(_, _)
extend_all(reply, i) ==
    IF i > Len(reply) THEN <<>> ELSE reply[i] \o extend_all(reply, i + 1)

\* the busy list left in reply order
keep_order(busy) == busy

\* busy_periods.sort(key=lambda x: x['start']): stable, by start
RECURSIVE sort_by_start(_)
sort_by_start(busy) ==
    IF busy = <<>> THEN <<>>
    ELSE LET rest == sort_by_start(SubSeq(busy, 1, Len(busy) - 1))
             x == busy[Len(busy)]
             k == Cardinality({i \in 1..Len(rest) : rest[i].start <= x.start})
         IN  SubSeq(rest, 1, k) \o <<x>> \o SubSeq(rest, k + 1, Len(rest))

Gap(from, to) == [start |-> from, end |-> to, duration_minutes |-> to - from]

\* the loop over the busy periods: a gap before a busy period is a slot when
\* it is long enough; current_time = max(current_time, busy_end)
RECURSIVE scan_busy(_, _, _, _, _)
scan_busy(busy, i, current_time, free_slots, duration_minutes) ==
    IF i > Len(busy)
    THEN [current_time |-> current_time, free_slots |-> free_slots]
    ELSE LET busy_start == busy[i].start
             busy_end == busy[i].end
             found == IF busy_start > current_time
                         /\ busy_start - current_time >= duration_minutes
                      THEN Append(free_slots, Gap(current_time, busy_start))
                      ELSE free_slots
         IN  scan_busy(busy, i + 1,
                       IF busy_end > current_time THEN busy_end ELSE current_time,
                       found, duration_minutes)

\* all gaps, the final one up to time_max included
all_free_slots(busy, time_min, time_max, duration_minutes) ==
    LET done == scan_busy(sort_by_start(busy), 1, time_min, <<>>, duration_minutes)
    IN  IF time_max > done.current_time
           /\ time_max - done.current_time >= duration_minutes
        THEN Append(done.free_slots, Gap(done.current_time, time_max))
        ELSE done.free_slots

\* free_slots[:10]
first_slots(free_slots) ==
    SubSeq(free_slots, 1, IF Len(free_slots) < SlotLimit THEN Len(free_slots) ELSE SlotLimit)

\* find_free_slots with a reply from the provider
FindFreeSlots(time_min, duration_minutes, attendees, reply) ==
    LET busy == extend_all(reply, 1)
        free_slots == all_free_slots(busy, time_min, MaxWindow, duration_minutes)
    IN  /\ fb_request' = [time_min |-> time_min, time_max |-> MaxWindow,
                          duration_minutes |-> duration_minutes,
                          calendar_ids |-> <<"primary">> \o attendees]
        /\ busy_periods' = busy
        /\ slots_result' = [free_slots |-> first_slots(free_slots),
                            total_slots |-> Len(free_slots),
                            status |-> "success"]
        /\ UNCHANGED nonSlotVars

\* find_free_slots when the query raises (HttpError or anything else)
FindFreeSlotsError(time_min, duration_minutes, attendees) ==
    /\ fb_request' = [time_min |-> time_min, time_max |-> MaxWindow,
                      duration_minutes |-> duration_minutes,
                      calendar_ids |-> <<"primary">> \o attendees]
    /\ busy_periods' = <<>>
    /\ slots_result' = [free_slots |-> <<>>, total_slots |-> 0, status |-> "error"]
    /\ UNCHANGED nonSlotVars

\* the caller has the result; the call's locals are gone
SlotsReturned ==
    /\ slots_result.status # "none"
    /\ fb_request' = NoSlotRequest
    /\ busy_periods' = <<>>
    /\ slots_result' = [free_slots |-> <<>>, total_slots |-> 0, status |-> "none"]
    /\ UNCHANGED nonSlotVars

\* a call starts only when none is under way
SlotsCall ==
    /\ slots_result.status = "none"
    /\ \E time_min \in {0, 2}, duration_minutes \in Durations,
          attendees \in {<<>>, <<"a">>, <<"a", "b">>} :
          \/ \E reply \in Replies(<<"primary">> \o attendees, time_min, MaxWindow) :
                FindFreeSlots(time_min, duration_minutes, attendees, reply)
          \/ FindFreeSlotsError(time_min, duration_minutes, attendees)

NextSlots ==
    \/ SlotsCall
    \/ SlotsReturned

SpecSlots == Init /\ [][NextSlots]_vars

\* ==== safety guard (safety_guard.py) and draft_email ========================

BLOCKED_DOMAINS == {"example.com", "test.com", "spam.com"}

\* an address is local@domain; domain "" stands for an address without '@'
Addresses ==
    {[local |-> "bob", domain |-> dom] :
        dom \in {"example.com", "corp.io", ""}}
    \cup {[local |-> "", domain |-> "corp.io"]}

\* _is_valid_email: a local part, '@' and a domain that ends in a dot and letters
is_valid_email(email) ==
    /\ email.local # ""
    /\ email.domain \in {"example.com", "test.com", "spam.com", "corp.io"}

\* a subject: its length, its length once stripped, isupper(), a spam word in it
Subjects ==
    {[len |-> 0, stripped |-> 0, upper |-> FALSE, spam |-> FALSE],
     [len |-> 4, stripped |-> 0, upper |-> FALSE, spam |-> FALSE],
     [len |-> 20, stripped |-> 20, upper |-> FALSE, spam |-> FALSE],
     [len |-> 20, stripped |-> 20, upper |-> TRUE, spam |-> FALSE],
     [len |-> 20, stripped |-> 20, upper |-> FALSE, spam |-> TRUE]}

\* a body: its length, the sensitive patterns and the toxic words matched in
\* subject and body together
Bodies ==
    {[len |-> 0, pii |-> 0, toxic |-> FALSE],
     [len |-> 5, pii |-> 0, toxic |-> FALSE],
     [len |-> 50, pii |-> 0, toxic |-> FALSE],
     [len |-> 50, pii |-> 1, toxic |-> FALSE],
     [len |-> 50, pii |-> 0, toxic |-> TRUE]}

B2N(b) == IF b THEN 1 ELSE 0

\* _check_pii
check_pii(draft, strict_mode) ==
    [passed |-> draft.body.pii = 0 \/ ~strict_mode, flags |-> draft.body.pii]

\* _check_toxic_content: toxic words, and a subject in capitals longer than 10
check_toxic_content(draft, strict_mode) ==
    LET flags == B2N(draft.body.toxic)
                 + B2N(draft.subject.upper /\ draft.subject.len > 10)
    IN  [passed |-> flags = 0 \/ ~strict_mode, flags |-> flags]

\* _check_recipients: an invalid main recipient ends the check; a blocked
\* domain and an invalid cc fail it
check_recipients(draft) ==
    IF ~is_valid_email(draft.to) THEN [passed |-> FALSE, flags |-> 1]
    ELSE LET blocked == draft.to.domain \in BLOCKED_DOMAINS
         IN  [passed |-> ~blocked /\ ~draft.cc_invalid,
              flags |-> B2N(blocked) + B2N(draft.cc_invalid)]

\* a length check that fails on its warnings
length_warning_fails(draft) ==
    LET flags == B2N(draft.body.len < 10 \/ draft.body.len > 5000)
    IN  [passed |-> flags = 0, flags |-> flags]

\* _check_content_length: "Length warnings don't block sending"
check_content_length(draft) ==
    [passed |-> TRUE, flags |-> B2N(draft.body.len < 10 \/ draft.body.len > 5000)]

\* _check_subject
check_subject(draft) ==
    IF draft.subject.len = 0 \/ draft.subject.stripped = 0
    THEN [passed |-> FALSE, flags |-> 1]
    ELSE [passed |-> TRUE,
          flags |-> B2N(draft.subject.len < 5 \/ draft.subject.len > 100)
                    + B2N(draft.subject.spam)]

\* _calculate_risk_level
calculate_risk_level(checks, flags) ==
    LET failed_checks == Cardinality({c \in DOMAIN checks : ~checks[c]})
    IN  IF failed_checks >= 2 \/ flags >= 5 THEN "high"
        ELSE IF failed_checks = 1 \/ flags >= 3 THEN "medium"
        ELSE "low"

\* check_draft: passed = all(checks.values())
check_draft(draft, strict_mode) ==
    LET pii == check_pii(draft, strict_mode)
        toxic == check_toxic_content(draft, strict_mode)
        recipient == check_recipients(draft)
        length == check_content_length(draft)
        subject == check_subject(draft)
        checks == [pii_check |-> pii.passed, toxic_check |-> toxic.passed,
                   recipient_check |-> recipient.passed,
                   length_check |-> length.passed,
                   subject_check |-> subject.passed]
        flags == pii.flags + toxic.flags + recipient.flags + length.flags
                 + subject.flags
    IN  [called |-> TRUE, strict_mode |-> strict_mode,
         passed |-> \A c \in DOMAIN checks : checks[c],
         checks |-> checks, flags |-> flags, length_flags |-> length.flags,
         risk_level |-> calculate_risk_level(checks, flags)]

\* the draft EmailDraft(...) builds from the generated content
BuiltDraft(to, cc_invalid, subject, body) ==
    [NoDraft EXCEPT !.status = "drafted", !.to = to, !.cc_invalid = cc_invalid,
                    !.subject = subject, !.body = body]

\* SafetyGuard(strict_mode).check_draft(draft)
CheckDraft(strict_mode, to, cc_invalid, subject, body) ==
    /\ safety_result' = check_draft(BuiltDraft(to, cc_invalid, subject, body), strict_mode)
    /\ UNCHANGED new_draft
    /\ UNCHANGED nonSafetyVars

\* _handle_draft: draft_email runs the module's guard (strict_mode False) on
\* the new draft and sets PENDING_APPROVAL whatever it said; save_draft and
\* request_approval store it
DraftEmail(to, subject, body) ==
    LET draft == BuiltDraft(to, FALSE, subject, body)
        result == check_draft(draft, FALSE)
    IN  /\ safety_result' = result
        /\ new_draft' = [draft EXCEPT !.safety_checks = result,
                                      !.status = "pending_approval"]
        /\ UNCHANGED nonSafetyVars

NextSafety ==
    \/ \E strict_mode \in BOOLEAN, to \in Addresses, cc_invalid \in BOOLEAN,
          subject \in Subjects, body \in Bodies :
          CheckDraft(strict_mode, to, cc_invalid, subject, body)
    \/ \E to \in Addresses, subject \in Subjects, body \in Bodies :
          DraftEmail(to, subject, body)

SpecSafety == Init /\ [][NextSafety]_vars

\* ==== SecureEmailAgent.process_request (backend/email_agent.py) =============

\* a test that refuses only when both are missing
missing_both(draft, access_token) ==
    draft \in {"None", "empty"} /\ access_token \in {"None", ""}

\* "if not draft or not access_token": None and {} are no draft, None and ""
\* are no token
missing_draft_or_token(draft, access_token) ==
    draft \in {"None", "empty"} \/ access_token \in {"None", ""}

\* draft_email: the completion may raise (not caught); the reply is parsed
draft_email_result(llm) ==
    [status |-> CASE llm = "json" -> "draft_ready"
                  [] llm = "text" -> "error"
                  [] OTHER -> "raised",
     called_provider |-> FALSE]

\* send_email: draft["to"] raises before the provider is called when the key
\* is missing; every exception becomes status error
send_email_result(draft, provider_ok) ==
    IF draft = "partial" THEN [status |-> "error", called_provider |-> FALSE]
    ELSE [status |-> IF provider_ok THEN "success" ELSE "error",
          called_provider |-> TRUE]

process_request_result(action, draft, access_token, llm, provider_ok) ==
    IF action \in {"absent", "draft"} THEN draft_email_result(llm)
    ELSE IF action = "send"
    THEN IF missing_draft_or_token(draft, access_token)
         THEN [status |-> "error", called_provider |-> FALSE]
         ELSE send_email_result(draft, provider_ok)
    ELSE [status |-> "error", called_provider |-> FALSE]

SecureProcessRequest(action, draft, access_token, llm, provider_ok) ==
    LET result == process_request_result(action, draft, access_token, llm, provider_ok)
    IN  /\ provider_calls + B2N(result.called_provider) <= MaxCalls
        /\ sec_request' = [action |-> action, draft |-> draft,
                           access_token |-> access_token]
        /\ sec_result' = result
        /\ provider_calls' = provider_calls + B2N(result.called_provider)
        /\ UNCHANGED nonSecureVars

\* state.get("action", "draft"): "absent" is a state without the key, "None"
\* and "delete" are values that are neither "draft" nor "send";
\* state.get("draft"): None, {}, a dict without "to", a complete draft;
\* state.get("access_token"): None, "", a token
NextSecure ==
    \E action \in {"absent", "draft", "send", "delete", "None"},
       draft \in {"None", "empty", "partial", "complete"},
       access_token \in {"None", "", "token"},
       llm \in {"json", "text", "raise"}, provider_ok \in BOOLEAN :
        SecureProcessRequest(action, draft, access_token, llm, provider_ok)

SpecSecure == Init /\ [][NextSecure]_vars

\* ==== properties ==========================================================

Terminal == {"sent", "rejected", "failed"}

\* C1: two concurrent send calls on the same Approved draft produce exactly
\* one Sent outcome: no draft has two send calls that returned success.
C1_SendAtMostOnce == \A d \in DraftIds : hist[d].sendOk <= 1

\* the edges of the draft state machine
PermittedEdge(a, b) ==
    <<a, b>> \in {<<"absent", "drafted">>, <<"drafted", "pending_approval">>,
                  <<"pending_approval", "approved">>,
                  <<"pending_approval", "rejected">>,
                  <<"approved", "sent">>, <<"approved", "failed">>}

\* one step of the model against the edges.  _handle_draft takes create and
\* request_approval in one step, and _handle_send may take approve and the
\* send result in one step; a deleted draft has no further history.
StepFollowsEdges(d) ==
    LET a == store[d].status
        b == store'[d].status IN
    \/ a = b
    \/ b = "absent"
    \/ PermittedEdge(a, b)
    \/ a = "absent" /\ b = "pending_approval"
    \/ /\ a = "pending_approval" /\ ev'.op = "send" /\ ev'.mail
       /\ PermittedEdge("approved", b)

\* C2: every change of a draft's stored status follows a permitted edge of
\* the draft state machine.
C2_TransitionsFollowEdges == [][\A d \in DraftIds : StepFollowsEdges(d)]_vars

\* C3: Sent, Rejected and Failed are terminal: once a draft's stored status is
\* one of them no operation changes it (the draft may still be deleted).
C3_TerminalIsFinal ==
    [][\A d \in DraftIds :
        store[d].status \in Terminal =>
            store'[d].status \in {store[d].status, "absent"}]_vars

\* C4: the Mail client's send is invoked for a draft only while the draft's
\* stored status is Approved, at the first attempt and at every retry.
C4_MailOnlyWhenApproved == ev.mail => ev.pre = "approved"

\* C5: on an ambiguous transport outcome the sender marks the draft Failed
\* and makes no further attempt, and so the provider accepts at most one
\* message per draft.
C5_AmbiguousMarksFailed ==
    /\ (ev.mail /\ ev.outcome = "lost") =>
            (ev.done /\ ~ev.retried /\ get_draft(store, ev.d).status = "failed")
    /\ \A d \in DraftIds : mailbox[d] <= 1

\* C6: whenever send returns success, the stored draft has status Sent and
\* holds the returned provider message id.
C6_SuccessMeansPersisted ==
    (ev.op = "send" /\ ev.done /\ ev.ok) =>
        /\ get_draft(store, ev.d).status = "sent"
        /\ get_draft(store, ev.d).gmail_message_id = ev.msgid

\* C7: every stored draft in status Sent has a provider message id, and
\* sent_at, once set, is never written again.
C7_SentHasIdAndOneSentAt ==
    /\ [](\A d \in DraftIds :
            store[d].status = "sent" => store[d].gmail_message_id # 0)
    /\ [][\A d \in DraftIds :
            (store[d].sent_at # 0 /\ store'[d].status # "absent") =>
                store'[d].sent_at = store[d].sent_at]_vars

\* C8: an attempt is retried only after a Transient error and at most
\* MAX_RETRIES times; a Permanent error ends the call at once with
\* retry_count = 0 and the draft Failed; exhaustion leaves the draft Failed.
C8_RetryOnlyTransient ==
    /\ ev.retried => ev.outcome = "transient"
    /\ \A p \in Procs : loc[p].retry <= MAX_RETRIES
    /\ (ev.mail /\ ev.outcome = "permanent") =>
            (ev.done /\ ev.retry_count = 0
             /\ get_draft(store, ev.d).status \in {"failed", "absent"})
    /\ (ev.mail /\ ev.done /\ ~ev.ok) =>
            get_draft(store, ev.d).status \in {"failed", "absent"}

\* the draft a send request is about: the one it names, else the one the
\* session drafted last
SendTarget(reqd) == IF reqd # 0 THEN reqd ELSE nextDraft

\* C9: once a send has ended with the draft Failed, a later send request for
\* that draft reports an error and invokes the Mail client for no draft.
C9_NoResendAfterFailed ==
    [][\A d \in DraftIds :
        (/\ hist[d].failedEnd
         /\ requests' = requests + 1
         /\ ev'.op = "send"
         /\ SendTarget(ev'.req) = d)
        => (~ev'.ok /\ ~ev'.mail)]_vars

C11_ApproveApprovedIsNoOp ==
    [][(/\ requests' = requests + 1
        /\ ev'.op = "approve"
        /\ ev'.pre = "approved")
       => (ev'.ok /\ store' = store)]_vars

\* expires_at of the approval request made for a draft: request_approval runs
\* in the step that created the draft
ExpiresAt(draft) == draft.created_at + APPROVAL_TIMEOUT_HOURS

OverduePending(st, t, d) ==
    st[d].status = "pending_approval" /\ t > ExpiresAt(st[d])

\* C12: an expiry sweep leaves no draft in PendingApproval whose approval
\* request has expired (now > expires_at); each such draft is Rejected by it.
C12_SweepRejectsOverdue ==
    [][CheckExpiredApprovals =>
        \A d \in DraftIds :
            OverduePending(store, now, d) => store'[d].status = "rejected"]_vars

\* the step is an approve decision for d that was accepted
ApproveDecisionStep(d) ==
    ev'.op = "approve" /\ ev'.d = d /\ ev'.ok

\* the step is a send request that found d still PendingApproval
AutoApproveStep(d) ==
    ev'.op = "send" /\ ev'.d = d /\ store[d].status = "pending_approval"

\* C13: a draft's stored status becomes Approved only in a step that is an
\* accepted approve decision for it or a send request that auto-approves it.
C13_ApprovedOnlyByDecision ==
    [][\A d \in DraftIds :
        (store[d].status # "approved" /\ store'[d].status = "approved")
            => (ApproveDecisionStep(d) \/ AutoApproveStep(d))]_vars

\* C14: once a draft's stored status is Sent or Rejected no step changes its
\* content (to, cc, bcc, subject, body, safety result).
C14_ImmutableAfterSent ==
    [][\A d \in DraftIds :
        (store[d].status \in {"sent", "rejected"} /\ store'[d].status # "absent")
            => store'[d].body = store[d].body]_vars

NoDuplicates(s) == \A i, j \in 1..Len(s) : s[i] = s[j] => i = j

\* C15: the plan the orchestrator executes names only registered agents and
\* names none twice, whatever the planner returned and the fallback appended.
C15_PlanRegisteredNoDuplicates ==
    node # "analyze" =>
        /\ Range(agents_to_invoke) \subseteq Registry
        /\ NoDuplicates(agents_to_invoke)

\* <<a, b>>: a runs before b when both are in the plan
PrecedencePairs == {<<"file_agent", "email_agent">>,
                    <<"email_agent", "calendar_agent">>,
                    <<"file_agent", "notes_agent">>}

RespectsPrecedence(s) ==
    \A pr \in PrecedencePairs : \A i, j \in 1..Len(s) :
        (s[i] = pr[1] /\ s[j] = pr[2]) => i < j

\* C16: agents run in an order that respects the three precedence pairs:
\* file before email, email before calendar, file before notes.
C16_PrecedencePairsHold == RespectsPrecedence(executed)

\* C17: an agent call that raises or times out leaves an error result in the
\* agent's own slot and the run goes on to check_next; it never ends the run.
C17_AgentFailureContained ==
    [][(/\ node = "execute"
        /\ executed' # executed
        /\ last'.outcome \in {"raise", "timeout"})
       => (/\ node' = "check"
           /\ IsError(agent_results'[last'.agent]))]_vars

\* the registered agents that ran, in the order they ran
Ran == SelectSeq(executed, LAMBDA a : a \in Registry)

FullPlan == Registry \subseteq Range(agents_to_invoke)

\* C18: a run whose plan contains every registered agent is not cut short by
\* the step limit, and when it reaches the end every registered agent has run
\* exactly once, in an order that respects the precedence pairs, and the
\* response has been compiled.
C18_FullPlanRunsAllOnce ==
    (node # "analyze" /\ FullPlan) =>
        /\ abort # "recursion"
        /\ node = "end" =>
            /\ Range(Ran) = Registry
            /\ NoDuplicates(Ran)
            /\ RespectsPrecedence(Ran)
            /\ final_response.kind # "none"

\* C19: no agent's process operation raises: every fault ends in a returned
\* result.
C19_AgentsNeverRaise == last.outcome # "raise"

\* C20: in a final response assembled by the compiler's own code every agent
\* whose result is an error has its message shown (a single tailored sentence
\* for a missing sign-in is accepted).
C20_FailedAgentShown ==
    (node = "end" /\ final_response.kind \in {"parts", "handler"}) =>
        \A a \in Registry :
            IsError(agent_results[a]) => a \in final_response.shown

\* the step in which request slot p finishes its update and saves
UpdateSaves(p) == pc[p] = "update_llm" /\ pc'[p] = "idle"

\* C22: writes to one draft file are serialized: an update that saves its
\* new content keeps what another request wrote to the same file while the
\* update was waiting (status, sent_at, provider message id).
C22_NoLostUpdate ==
    [][\A p \in Procs :
        UpdateSaves(p) =>
            LET d == loc[p].d IN
            /\ store'[d].status = store[d].status
            /\ store'[d].sent_at = store[d].sent_at
            /\ store'[d].gmail_message_id = store[d].gmail_message_id]_vars

\* the step saves draft d: its file is written
Saved(d) == store'[d] # store[d] /\ store'[d].status # "absent"

\* C25: save_draft followed by get_draft of the same id returns a draft
\* equal, field by field, to what was saved.
C25_DraftRoundTrip ==
    [][\A d \in DraftIds : Saved(d) => get_draft(store', d) = store'[d]]_vars

\* C26: cleanup_old_drafts(days) removes exactly the drafts that are Sent,
\* Rejected or Failed and were last saved before the threshold; every other
\* draft is kept.
C26_CleanupRemovesOldTerminal ==
    [][\A days \in Days :
        CleanupOldDrafts(days) =>
            \A d \in DraftIds :
                IF store[d].status # "absent" /\ OldTerminal(store, now, days, d)
                THEN store'[d].status = "absent"
                ELSE store'[d] = store[d]]_vars

\* the transcript a reader can load holds a message of request r from sender
Persisted(r, sender) ==
    \E i \in 1..Len(get_chat_history_by_session(chat_json)) :
        /\ get_chat_history_by_session(chat_json)[i].rid = r
        /\ get_chat_history_by_session(chat_json)[i].sender = sender

\* C21: a cancelled run leaves both the user message and the agent message of
\* its request in the transcript, or neither; never the user message alone.
C21_CancelAllOrNothing ==
    \A r \in ChatIds :
        run[r] = "cancelled" => (Persisted(r, "user") <=> Persisted(r, "agent"))

\* the file after a crash is the complete file from before the write of m, or
\* the complete file after it
CompleteAfterCrash(m) ==
    /\ ~chat_json'.torn
    /\ chat_json'.content \in {chat_json.content, Append(chat_json.content, m)}

\* C23: after a crash at any point of a write the file holds the complete
\* content from before the write or the complete content after it, never a
\* torn or truncated one.
C23_NoTornWrite ==
    [][/\ (\E point \in CrashPoints : CrashInStart(point))
            => CompleteAfterCrash(ChatMessage(chats + 1, "user"))
       /\ \A p \in Procs :
            (\E point \in CrashPoints : CrashInFinish(p, point))
                => CompleteAfterCrash(ChatMessage(cloc[p], "agent"))]_vars

\* C24: in any read of the session history a message with a smaller timestamp
\* comes before a message with a larger one.
C24_ReadOrderedByTimestamp ==
    \A i, j \in 1..Len(history) :
        history[i].timestamp < history[j].timestamp => i < j

\* a read returned a transcript whose file order is not its timestamp order
C24_Witness ==
    /\ Len(history) >= 2
    /\ \E i, j \in 1..Len(chat_json.content) :
        i < j /\ chat_json.content[i].timestamp > chat_json.content[j].timestamp
\* C27: once a stage of the file pipeline has reported an error no later
\* stage runs, and the run reports errors.
C27_StopsAtFailingStage ==
    failed # 0 => (Len(ran) = failed /\ (fnode = "end" => fresult = "error"))

\* the stage file_ingestor has run and rejected the file
IngestFailed == failed = 1
IngestRan == Len(ran) >= 1

\* C28: an empty file fails ingest, a file larger than 50 MiB fails ingest,
\* and a non-empty file of at most 50 MiB (50 MiB itself included) with a
\* supported extension passes ingest.
C28_IngestSizeLimit ==
    IngestRan =>
        /\ fstate.file_size = 0 => IngestFailed
        /\ fstate.file_size > MAX_FILE_SIZE => IngestFailed
        /\ (fstate.file_size > 0 /\ fstate.file_size <= MAX_FILE_SIZE
              /\ fstate.file_ext \in DOMAIN supported_types) => ~IngestFailed

\* a file of exactly 50 MiB with a supported extension went through ingest
C28_Witness ==
    /\ IngestRan
    /\ fstate.file_size = MAX_FILE_SIZE
    /\ fstate.file_ext \in DOMAIN supported_types
    /\ fstate.file_type # ""

\* C29: the final metadata of a run that produced N chunks reports
\* num_chunks = N and summary_length <= original_length.
C29_MetadataConsistent ==
    fstate.metadata # NoMetadata =>
        /\ fstate.metadata.num_chunks = fstate.chunks
        /\ fstate.metadata.summary_length <= fstate.metadata.original_text_length
\* the matcher's answer allows the mutation
MatchAccepted ==
    match.parsed /\ match.confidence >= ConfidenceThreshold /\ match.id \in listed

\* C30: an update or delete is sent to the provider only when the matcher
\* answered with confidence >= 0.5 and an id that is among the listed ids;
\* otherwise nothing is sent and the agent returns an error.
C30_MutationOnlyOnListedMatch ==
    /\ mutation # NoMutation => MatchAccepted
    /\ (mpc = "done" /\ ~MatchAccepted) => (mutation = NoMutation /\ mresult = "error")
\* C36: for every plan the planner can return, the execute_agent / check_next
\* loop is not cut off by the step limit and runs at most len(plan) agents
\* before compile_response.
C36_LoopBoundedByPlan ==
    node # "analyze" =>
        /\ abort # "recursion"
        /\ Len(Ran) <= Len(agents_to_invoke)

\* the step is an approve decision on draft d for which process_decision
\* returned: the draft was loaded and was pending approval
ApproveReturned(d) ==
    /\ requests' = requests + 1
    /\ ev'.op = "approve" /\ ev'.d = d
    /\ ev'.pre = "pending_approval"

\* C37: after process_decision returns for an approve decision the stored
\* draft is Approved, whatever the decision's modifications contain.
C37_ApproveStoresApproved ==
    [][\A d \in DraftIds : ApproveReturned(d) => store'[d].status = "approved"]_vars

\* C40: the in-memory pending_approvals table holds an entry for a draft
\* exactly when the draft's stored status is PendingApproval.
C40_PendingTableMatchesStore ==
    \A d \in DraftIds :
        pending_approvals[d] # NoExpiry <=> store[d].status = "pending_approval"

\* the file of the run satisfies the checks of file_ingestor
ValidFile ==
    /\ fstate.file_size > 0
    /\ ~TooLarge(fstate.file_size)
    /\ fstate.file_ext \in DOMAIN supported_types

\* C39: process_file returns success only for a file that passed ingest
\* validation in the same invocation, also when a cached summary is used.
C39_SuccessOnlyAfterIngest ==
    fresult = "success" => (IngestRan /\ ~IngestFailed /\ ValidFile)

\* the step is a send request without a draft id that comes right after the
\* creation of draft d
SendFollowsDraft(d) ==
    /\ ev.op = "draft" /\ ev.d = d
    /\ requests' = requests + 1
    /\ ev'.op = "send" /\ ev'.req = 0

\* C34: a send request without a draft id that follows the creation of draft d
\* resolves to d, and d is Sent when the provider accepts the message.
C34_SendResolvesToNewDraft ==
    [][\A d \in DraftIds :
        SendFollowsDraft(d) =>
            /\ ev'.d = d
            /\ (ev'.mail /\ ev'.outcome = "ok") => store'[d].status = "sent"]_vars

\* C38: after any sequence of save_draft, delete_draft and cleanup_old_drafts
\* calls the session's index.json lists each draft id at most once and lists
\* exactly the ids whose draft file exists.
C38_IndexMatchesFiles ==
    /\ NoDuplicates(index_json)
    /\ Range(index_json) = {d \in DraftIds : draft_files[d] # "absent"}

\* a draft was deleted and saved again while another draft has a file, and
\* the last call was a cleanup
C38_Witness ==
    /\ \E d \in deleted : d \in Range(index_json)
    /\ Len(index_json) >= 2
    /\ sret.call = "cleanup_old_drafts"
Overlaps(slot, busy) ==
    busy.start < busy.end /\ slot.start < busy.end /\ busy.start < slot.end

\* C31: find_free_slots returns at most 10 slots, each a gap of at least
\* duration_minutes inside [time_min, time_max] that overlaps no busy interval
\* of the primary calendar or of an attendee, whatever the order and the
\* overlaps of the busy intervals.
C31_FreeSlotsAreFree ==
    /\ Len(slots_result.free_slots) <= 10
    /\ \A i \in 1..Len(slots_result.free_slots) :
        LET slot == slots_result.free_slots[i]
        IN  /\ fb_request.time_min <= slot.start
            /\ slot.end <= fb_request.time_max
            /\ slot.end - slot.start >= fb_request.duration_minutes
            /\ \A j \in 1..Len(busy_periods) : ~Overlaps(slot, busy_periods[j])

\* more than 10 gaps were found, and the busy intervals of the attendees came
\* out of order and overlapping
C31_Witness ==
    /\ slots_result.status = "success"
    /\ slots_result.total_slots > 10
    /\ Len(slots_result.free_slots) = 10
    /\ Len(fb_request.calendar_ids) = 3
    /\ \E i, j \in 1..Len(busy_periods) :
        /\ i < j
        /\ busy_periods[i].start > busy_periods[j].start
        /\ busy_periods[j].end > busy_periods[i].start
FourChecks(result) ==
    /\ result.checks.pii_check
    /\ result.checks.toxic_check
    /\ result.checks.recipient_check
    /\ result.checks.subject_check

\* C32: in every safety check result passed is the conjunction of the PII,
\* toxic, recipients and subject checks; the length check only warns and never
\* changes passed.
C32_PassedIsFourChecks ==
    \A result \in {safety_result, new_draft.safety_checks} :
        result.passed = FourChecks(result)

\* a strict guard passed a draft whose body length it flagged, and a stored
\* draft failed its check
C32_Witness ==
    /\ safety_result.called
    /\ safety_result.strict_mode
    /\ safety_result.length_flags > 0
    /\ safety_result.passed
    /\ new_draft.status # "none"
    /\ ~new_draft.safety_checks.passed

ToBobAtExample(draft) ==
    /\ draft.status # "none"
    /\ draft.to = [local |-> "bob", domain |-> "example.com"]
    /\ draft.subject.stripped > 0
    /\ draft.body.len > 0

\* C33: a draft to bob@example.com with a non-empty subject and body is stored
\* in status PendingApproval with a safety result that passed.
C33_ExampleDraftPasses ==
    ToBobAtExample(new_draft) =>
        /\ new_draft.status = "pending_approval"
        /\ new_draft.safety_checks.passed
SendWithoutDraftOrToken ==
    /\ sec_request.action = "send"
    /\ \/ sec_request.draft \in {"None", "empty"}
       \/ sec_request.access_token \in {"None", ""}

\* C35: process_request with action send returns status error and does not
\* call the mail provider when the draft or the access token is missing; an
\* action that is neither draft nor send returns status error too.
C35_SendNeedsDraftAndToken ==
    /\ SendWithoutDraftOrToken =>
        sec_result.status = "error" /\ ~sec_result.called_provider
    /\ sec_request.action \in {"delete", "None"} => sec_result.status = "error"

\* a send with a complete draft and no token was refused after the provider
\* had been called by earlier requests
C35_Witness ==
    /\ sec_request.action = "send"
    /\ sec_request.draft = "complete"
    /\ sec_request.access_token = "None"
    /\ sec_result.status = "error"
    /\ provider_calls > 0
====
